---- MODULE Spec2Model ----
(***************************************************************************)
(* State-machine model of four parts of awswrangler:                       *)
(*   - _deserialize_fragments_with_retry (the retrying fragment resolver), *)
(*   - ArrowParquetDatasource (construction, get_read_tasks,               *)
(*     estimate_inmemory_data_size) with its sampling estimators,          *)
(*   - _read_fragments, the read function of the datasource's ReadTasks,   *)
(*   - cleanrooms.read_sql_query and its _delete_after_iterate generator.  *)
(* Each part has its own next-state relation and specification; the        *)
(* variables of the other parts stay at their initial values.              *)
(***************************************************************************)
EXTENDS Integers, Sequences, FiniteSets, TLC

VARIABLES
    \* ---- _deserialize_fragments_with_retry ----
    r_pc,             \* "idle" | "try" | "returned" | "raised"
    i,                \* loop variable of `for i in range(FILE_READING_RETRY)`
    min_interval,     \* local min_interval, in units of 1/JitterSteps second
    final_exception,  \* local final_exception (None or an exception)
    r_log,            \* calls of _logger.exception, in order
    sleeps,           \* arguments of time.sleep, in order
    draws,            \* values returned by random.random(), in order
    outcomes,         \* what each call of _deserialize_fragments did, in order
    r_result,         \* value returned / exception raised by the call
    \* ---- the sampling estimators ----
    e_op,             \* "idle" | "sample_count" | "ratio" | "batch"
    e_num_files,      \* len(self._pq_fragments) seen by _sample_fragments
    e_samples,        \* sample_infos given to an estimator
    e_decoding,       \* DataContext.get_current().decoding_size_estimation
    e_target,         \* DataContext.get_current().target_max_block_size
    e_per_sample,     \* list(map(compute_..., sample_infos))
    e_result,         \* what the function returned or raised
    \* ---- ArrowParquetDatasource ----
    d_pc,             \* "none" | "ready" | "failed" (__init__ raised)
    pq_fragments,     \* self._pq_fragments: the fragments, 1 .. n
    pq_paths,         \* self._pq_paths: the path of each fragment
    metadata,         \* self._metadata: total_byte_size per prefetched file
    prefetched,       \* how many entries prefetch_file_metadata returned
    shuffler,         \* self._file_metadata_shuffler is not None
    encoding_ratio,   \* self._encoding_ratio
    default_read_batch_size_rows,  \* self._default_read_batch_size_rows
    tasks,            \* what the last get_read_tasks call returned
    last_parallelism, \* its argument (0: not called yet)
    d_est,            \* what the last estimate_inmemory_data_size call did
    zero_size_file,   \* the input file of 0 bytes on disk (0: there is none)
    d_error,          \* the exception __init__ raised ("None": it returned)
    d_steps,          \* the steps of __init__ that ran, in order
    \* ---- cleanrooms.read_sql_query ----
    c_pc,             \* "idle" | "waiting" | "reading" | "returned" |
                      \* "iterating" | "exhausted" | "abandoned" | "raised"
    c_args,           \* the arguments of the call
    c_sql_parameters, \* sqlParameters given to start_protected_query
    c_chunks_left,    \* chunks the iterator of read_parquet still holds
    c_events,         \* calls made and chunks yielded, in order
    c_error,          \* the exception the call or the iteration raised
    \* ---- _read_fragments, run by the ReadTasks of one datasource ----
    rf_pc,            \* "none" | "idle" | "resolving" | "fragments" |
                      \* "batches" | "done" | "raised"
    supplied_args,    \* arrow_parquet_args as the caller gave it to __init__
    arrow_parquet_args,  \* self._arrow_parquet_args, shared by the ReadTasks
    rf_default,       \* self._default_read_batch_size_rows
    block_udf,        \* self._block_udf is not None
    serialized_fragments,  \* the group of the running invocation
    use_threads,      \* local use_threads
    batch_size,       \* local batch_size
    fragment,         \* position of the `for fragment in fragments` loop
    batches,          \* num_rows of the batches to_batches still holds
    to_batches_calls, \* calls of fragment.to_batches, in order
    yielded,          \* tables yielded by the running invocation, in order
    udf_calls,        \* num_rows of the tables given to block_udf, in order
    rerun             \* an invocation ran before the running one

retry_vars == <<r_pc, i, min_interval, final_exception, r_log, sleeps, draws,
                outcomes, r_result>>

est_vars == <<e_op, e_num_files, e_samples, e_decoding, e_target,
              e_per_sample, e_result>>

ds_vars == <<d_pc, pq_fragments, pq_paths, metadata, prefetched, shuffler,
             encoding_ratio, default_read_batch_size_rows, tasks,
             last_parallelism, d_est, zero_size_file, d_error, d_steps>>

cr_vars == <<c_pc, c_args, c_sql_parameters, c_chunks_left, c_events, c_error>>

rf_vars == <<rf_pc, supplied_args, arrow_parquet_args, rf_default, block_udf,
             serialized_fragments, use_threads, batch_size, fragment, batches,
             to_batches_calls, yielded, udf_calls, rerun>>

vars == <<retry_vars, est_vars, ds_vars, cr_vars, rf_vars>>

\* What an operation of one part leaves alone: the state of the other parts.
not_retry == <<est_vars, ds_vars, cr_vars, rf_vars>>
not_est == <<retry_vars, ds_vars, cr_vars, rf_vars>>
not_ds == <<retry_vars, est_vars, cr_vars, rf_vars>>
not_cr == <<retry_vars, est_vars, ds_vars, rf_vars>>
\* _read_fragments calls _deserialize_fragments_with_retry.
not_rf == <<est_vars, ds_vars, cr_vars>>

\* Python's None where an exception or a return value is expected.
NoValue == [kind |-> "None", attempt |-> 0]
\* The empty retry_timing text of the last attempt's log message.
NoRetry == -1

(***************************************************************************)
(* Bounds of the model.                                                    *)
(***************************************************************************)
\* random.random() is quantised to j / JitterSteps, j in 0 .. JitterSteps-1
JitterSteps == 4

\* number of files of a dataset seen by _sample_fragments
MaxFiles == 1100
\* length of a sample_infos list given to an estimator
MaxSamples == 2

\* number of fragments of a datasource
MaxFragments == 7
\* number of fragments of a datasource constructed with shuffle="files"
MaxShuffled == 3
\* the parallelism given to get_read_tasks
MaxParallelism == 3

\* total_byte_size of a file whose metadata was prefetched
FileByteSizes == {3, 8}

\* number of chunks the iterator of a chunked read yields
MaxChunks == 2

\* number of fragments in the group of one ReadTask
MaxGroup == 2
\* number of batches to_batches returns for one fragment
MaxBatches == 2
\* num_rows of a batch (a filter can leave a batch without rows)
BatchNumRows == {0, 3}

\* Values a sampled batch and the file statistics can have: batch.nbytes,
\* batch.num_rows, the sum of the row groups' total_byte_size and
\* metadata.num_rows. A batch of null-typed columns has rows and 0 bytes.
BatchBytes == {0, 5, 12}
BatchRows == {1, 2}
TotalSizes == {2, 4}
MetaRows == {2}
\* Configured values of DataContext.target_max_block_size (128 MiB default).
TargetBlockSizes == {0, 64, 1000, 134217728}

(***************************************************************************)
(* Program constants.                                                      *)
(***************************************************************************)
FILE_READING_RETRY == 8
PARQUET_READER_ROW_BATCH_SIZE == 10000
PARQUET_ENCODING_RATIO_ESTIMATE_DEFAULT == 5
PARQUET_ENCODING_RATIO_ESTIMATE_LOWER_BOUND == 2
\* PARQUET_ENCODING_RATIO_ESTIMATE_SAMPLING_RATIO = 0.01 = 1 / 100
SAMPLING_RATIO_DENOMINATOR == 100
PARQUET_ENCODING_RATIO_ESTIMATE_MIN_NUM_SAMPLES == 2
PARQUET_ENCODING_RATIO_ESTIMATE_MAX_NUM_SAMPLES == 10

\* Exceptions _deserialize_fragments can raise (any Exception is caught).
ExcKinds == {"OSError", "ArrowInvalid"}

\* 2^n
RECURSIVE Pow2(_)
Pow2(n) == IF n = 0 THEN 1 ELSE 2 * Pow2(n - 1)

(***************************************************************************)
(* _deserialize_fragments_with_retry                                       *)
(***************************************************************************)
RetryInit ==
    /\ r_pc = "idle"
    /\ i = 0
    /\ min_interval = 0
    /\ final_exception = NoValue
    /\ r_log = <<>>
    /\ sleeps = <<>>
    /\ draws = <<>>
    /\ outcomes = <<>>
    /\ r_result = NoValue

\* Entry of the function: lines 134-136.
RetryEnter ==
    /\ r_pc \in {"idle", "returned", "raised"}
    /\ r_pc' = "try"
    /\ i' = 0
    /\ min_interval' = 0
    /\ final_exception' = NoValue
    /\ r_log' = <<>>
    /\ sleeps' = <<>>
    /\ draws' = <<>>
    /\ outcomes' = <<>>
    /\ r_result' = NoValue

\* A call of the function on its own.
RetryCall ==
    /\ RetryEnter
    /\ UNCHANGED not_retry

\* `return _deserialize_fragments(serialized_fragments)` succeeds.
AttemptSucceeds ==
    /\ r_pc = "try"
    /\ i < FILE_READING_RETRY
    /\ outcomes' = Append(outcomes, "ok")
    /\ r_result' = [kind |-> "value", attempt |-> i + 1]
    /\ r_pc' = "returned"
    /\ UNCHANGED <<i, min_interval, final_exception, r_log, sleeps, draws>>
    /\ UNCHANGED not_retry

\* Mutant of LogRecord: the diagnostic dump is appended to every message.
LogRecordDumpAlways(idx, interval) ==
    [attempt |-> idx + 1,
     retry_after |-> IF idx = FILE_READING_RETRY - 1 THEN NoRetry ELSE interval,
     dump |-> TRUE]

\* The text of the log message of a failed attempt (lines 143-157).
LogRecord(idx, interval) ==
    [attempt |-> idx + 1,
     retry_after |-> IF idx = FILE_READING_RETRY - 1 THEN NoRetry ELSE interval,
     dump |-> (idx = 0)]

\* Mutant of DrawsJitter: the jitter is drawn again at every failure.
DrawsJitterAlways(interval) == TRUE

\* `if not min_interval:` (line 158): true only while min_interval is 0.
DrawsJitter(interval) == interval = 0

\* `min_interval = 1 + random.random()` (line 161), when the jitter is drawn.
JitteredInterval(interval, j) ==
    IF DrawsJitter(interval) THEN JitterSteps + j ELSE interval

\* Mutant of FinalException: the first exception is kept, not the last.
FinalExceptionFirst(old, e, idx) ==
    IF old = NoValue THEN [kind |-> e, attempt |-> idx + 1] ELSE old

\* `final_exception = e` (line 166): the exception of the current attempt.
FinalException(old, e, idx) == [kind |-> e, attempt |-> idx + 1]

\* The call raises `e`: the except block (lines 139-166), then the next
\* iteration or, after the last one, `raise final_exception` (line 167).
AttemptFails(e, j) ==
    LET slept == JitteredInterval(min_interval, j) IN
    /\ r_pc = "try"
    /\ i < FILE_READING_RETRY
    /\ outcomes' = Append(outcomes, e)
    /\ r_log' = Append(r_log, LogRecord(i, min_interval))
    /\ draws' = IF DrawsJitter(min_interval) THEN Append(draws, j) ELSE draws
    /\ sleeps' = Append(sleeps, slept)
    /\ min_interval' = slept * 2
    /\ final_exception' = FinalException(final_exception, e, i)
    /\ i' = i + 1
    /\ IF i + 1 = FILE_READING_RETRY
         THEN /\ r_pc' = "raised"
              /\ r_result' = final_exception'
         ELSE /\ r_pc' = "try"
              /\ UNCHANGED r_result
    /\ UNCHANGED not_retry

RetryNext ==
    \/ RetryCall
    \/ AttemptSucceeds
    \/ \E e \in ExcKinds, j \in 0 .. (JitterSteps - 1) : AttemptFails(e, j)

(***************************************************************************)
(* Floats as exact fractions <<numerator, denominator>> in lowest terms.   *)
(* Every value of the model is a small dyadic fraction, which Python's     *)
(* floats represent exactly.                                               *)
(***************************************************************************)
Min(a, b) == IF a < b THEN a ELSE b
Max(a, b) == IF a > b THEN a ELSE b

RECURSIVE GCD(_, _)
GCD(a, b) == IF b = 0 THEN a ELSE GCD(b, a % b)

Rat(n, d) == LET g == GCD(n, d) IN <<n \div g, d \div g>>
RatAdd(a, b) == Rat(a[1] * b[2] + b[1] * a[2], a[2] * b[2])
RatDiv(a, b) == Rat(a[1] * b[2], a[2] * b[1])
RatLess(a, b) == a[1] * b[2] < b[1] * a[2]
RatMax(a, b) == IF RatLess(a, b) THEN b ELSE a
RatInt(n) == <<n, 1>>

\* An absent (None) field of a _SampleInfo.
NoneRat == <<0, 0>>

RECURSIVE RatSum(_)
RatSum(seq) ==
    IF seq = <<>> THEN RatInt(0) ELSE RatAdd(seq[1], RatSum(Tail(seq)))

\* np.mean of a nonempty list
Mean(seq) == RatDiv(RatSum(seq), RatInt(Len(seq)))

\* _SampleInfo: the two fields are optional independently of each other.
ActualValues == {NoneRat} \cup {Rat(b, r) : b \in BatchBytes, r \in BatchRows}
EstimatedValues == {NoneRat} \cup {Rat(t, m) : t \in TotalSizes, m \in MetaRows}
SampleInfos ==
    {[actual_bytes_per_row |-> a, estimated_bytes_per_row |-> e] :
        a \in ActualValues, e \in EstimatedValues}
SampleLists == UNION {[1 .. k -> SampleInfos] : k \in 1 .. MaxSamples}

Value(r) == [kind |-> "value", val |-> r]
Raised(what) == [kind |-> what, val |-> NoneRat]
NoResult == [kind |-> "None", val |-> NoneRat]

(***************************************************************************)
(* _sample_fragments: the number of files sampled (lines 399-409).         *)
(***************************************************************************)
\* Python's round() of n / 100: to the nearest integer, halves to even.
RoundHalfEven(n) ==
    LET q == n \div SAMPLING_RATIO_DENOMINATOR
        r == n % SAMPLING_RATIO_DENOMINATOR
    IN  IF 2 * r < SAMPLING_RATIO_DENOMINATOR THEN q
        ELSE IF 2 * r > SAMPLING_RATIO_DENOMINATOR THEN q + 1
        ELSE IF q % 2 = 0 THEN q ELSE q + 1

\* Mutant of SamplingShare: rounds to the nearest integer.
SamplingShareRounded(num_files) == RoundHalfEven(num_files)

\* `int(num_files * PARQUET_ENCODING_RATIO_ESTIMATE_SAMPLING_RATIO)`: int()
\* truncates, and the double 0.01 lies above 1/100, so the product of a
\* multiple of 100 is never below the integer: the value is num_files // 100.
SamplingShare(num_files) == num_files \div SAMPLING_RATIO_DENOMINATOR

NumSamples(num_files) ==
    LET num_samples == SamplingShare(num_files)
        min_num_samples ==
            Min(PARQUET_ENCODING_RATIO_ESTIMATE_MIN_NUM_SAMPLES, num_files)
        max_num_samples ==
            Min(PARQUET_ENCODING_RATIO_ESTIMATE_MAX_NUM_SAMPLES, num_files)
    IN  Max(Min(num_samples, max_num_samples), min_num_samples)

(***************************************************************************)
(* _estimate_files_encoding_ratio (lines 545-561).                         *)
(***************************************************************************)
compute_encoding_ratio(sample_info) ==
    IF \/ sample_info.actual_bytes_per_row = NoneRat
       \/ sample_info.estimated_bytes_per_row = NoneRat
      THEN RatInt(PARQUET_ENCODING_RATIO_ESTIMATE_LOWER_BOUND)
      ELSE RatDiv(sample_info.actual_bytes_per_row,
                  sample_info.estimated_bytes_per_row)

\* Mutant of FloorAtLowerBound: the mean is returned as it is.
FloorAtLowerBoundMissing(ratio) == ratio

\* `max(ratio, PARQUET_ENCODING_RATIO_ESTIMATE_LOWER_BOUND)` (line 561)
FloorAtLowerBound(ratio) ==
    RatMax(ratio, RatInt(PARQUET_ENCODING_RATIO_ESTIMATE_LOWER_BOUND))

EncodingRatios(sample_infos) ==
    [n \in DOMAIN sample_infos |-> compute_encoding_ratio(sample_infos[n])]

estimate_files_encoding_ratio(sample_infos, decoding_size_estimation) ==
    IF ~decoding_size_estimation
      THEN RatInt(PARQUET_ENCODING_RATIO_ESTIMATE_DEFAULT)
      ELSE FloorAtLowerBound(Mean(EncodingRatios(sample_infos)))

(***************************************************************************)
(* _estimate_default_read_batch_size_rows (lines 564-578).                 *)
(***************************************************************************)
\* `max_parquet_reader_row_batch_size_bytes // actual_bytes_per_row`: the
\* floor of the quotient, for a divisor above 0.
FloorDiv(n, rat) == (n * rat[2]) \div rat[1]

\* compute_batch_size_rows of a sample whose actual_bytes_per_row is not 0.
compute_batch_size_rows(sample_info, target_max_block_size) ==
    IF sample_info.actual_bytes_per_row = NoneRat
      THEN PARQUET_READER_ROW_BATCH_SIZE
      ELSE LET max_parquet_reader_row_batch_size_bytes ==
                   target_max_block_size \div 10
           IN  Max(1, Min(PARQUET_READER_ROW_BATCH_SIZE,
                          FloorDiv(max_parquet_reader_row_batch_size_bytes,
                                   sample_info.actual_bytes_per_row)))

\* The floor division raises ZeroDivisionError for a sample of 0 bytes per row.
DividesByZero(sample_info) ==
    /\ sample_info.actual_bytes_per_row # NoneRat
    /\ sample_info.actual_bytes_per_row[1] = 0

\* The samples mapped before the first one that raises (all, when none does).
RECURSIVE BatchSizesUntilError(_, _)
BatchSizesUntilError(sample_infos, target_max_block_size) ==
    IF sample_infos = <<>> \/ DividesByZero(sample_infos[1]) THEN <<>>
    ELSE <<RatInt(compute_batch_size_rows(sample_infos[1],
                                          target_max_block_size))>>
         \o BatchSizesUntilError(Tail(sample_infos), target_max_block_size)

estimate_default_read_batch_size_rows(sample_infos, target_max_block_size) ==
    IF \E n \in DOMAIN sample_infos : DividesByZero(sample_infos[n])
      THEN Raised("ZeroDivisionError")
      ELSE Value(Mean(BatchSizesUntilError(sample_infos,
                                           target_max_block_size)))

(***************************************************************************)
(* The estimators as operations on inputs drawn from the bounded sets.     *)
(***************************************************************************)
EstInit ==
    /\ e_op = "idle"
    /\ e_num_files = 0
    /\ e_samples = <<>>
    /\ e_decoding = TRUE
    /\ e_target = 0
    /\ e_per_sample = <<>>
    /\ e_result = NoResult

SampleFragments(num_files) ==
    /\ e_op = "idle"
    /\ e_op' = "sample_count"
    /\ e_num_files' = num_files
    /\ e_result' = Value(RatInt(NumSamples(num_files)))
    /\ UNCHANGED <<e_samples, e_decoding, e_target, e_per_sample>>
    /\ UNCHANGED not_est

EstimateFilesEncodingRatio(sample_infos, decoding_size_estimation) ==
    /\ e_op = "idle"
    /\ e_op' = "ratio"
    /\ e_samples' = sample_infos
    /\ e_decoding' = decoding_size_estimation
    /\ e_per_sample' = IF decoding_size_estimation
                         THEN EncodingRatios(sample_infos) ELSE <<>>
    /\ e_result' = Value(estimate_files_encoding_ratio(
                             sample_infos, decoding_size_estimation))
    /\ UNCHANGED <<e_num_files, e_target>>
    /\ UNCHANGED not_est

EstimateDefaultReadBatchSizeRows(sample_infos, target_max_block_size) ==
    /\ e_op = "idle"
    /\ e_op' = "batch"
    /\ e_samples' = sample_infos
    /\ e_target' = target_max_block_size
    /\ e_per_sample' = BatchSizesUntilError(sample_infos, target_max_block_size)
    /\ e_result' = estimate_default_read_batch_size_rows(
                       sample_infos, target_max_block_size)
    /\ UNCHANGED <<e_num_files, e_decoding>>
    /\ UNCHANGED not_est

\* The next call starts from fresh inputs.
EstReset ==
    /\ e_op # "idle"
    /\ e_op' = "idle"
    /\ e_num_files' = 0
    /\ e_samples' = <<>>
    /\ e_decoding' = TRUE
    /\ e_target' = 0
    /\ e_per_sample' = <<>>
    /\ e_result' = NoResult
    /\ UNCHANGED not_est

EstNext ==
    \/ /\ e_op = "idle"
       /\ \E n \in 1 .. MaxFiles : SampleFragments(n)
    \/ /\ e_op = "idle"
       /\ \E sample_infos \in SampleLists, d \in BOOLEAN :
             EstimateFilesEncodingRatio(sample_infos, d)
    \/ /\ e_op = "idle"
       /\ \E sample_infos \in SampleLists, t \in TargetBlockSizes :
             EstimateDefaultReadBatchSizeRows(sample_infos, t)
    \/ EstReset


(***************************************************************************)
(* ArrowParquetDatasource                                                  *)
(***************************************************************************)
\* The None that pads self._metadata (line 322).
NoMetadata == 0

Identity(n) == [k \in 1 .. n |-> k]

\* The samples _sample_fragment returns while a datasource is constructed:
\* both fields absent, 5 bytes per row against 1 estimated, and a batch of
\* rows without bytes.
ConstructSamples ==
    {[actual_bytes_per_row |-> NoneRat, estimated_bytes_per_row |-> NoneRat],
     [actual_bytes_per_row |-> Rat(5, 1), estimated_bytes_per_row |-> Rat(2, 2)],
     [actual_bytes_per_row |-> Rat(0, 1), estimated_bytes_per_row |-> Rat(2, 2)]}
\* DataContext.target_max_block_size while a datasource is constructed: the
\* default of 128 MiB.
ConstructTargets == {134217728}

DsInit ==
    /\ d_pc = "none"
    /\ pq_fragments = <<>>
    /\ pq_paths = <<>>
    /\ metadata = <<>>
    /\ prefetched = 0
    /\ shuffler = FALSE
    /\ encoding_ratio = NoneRat
    /\ default_read_batch_size_rows = NoneRat
    /\ tasks = <<>>
    /\ last_parallelism = 0
    /\ d_est = NoResult
    /\ zero_size_file = 0
    /\ d_error = "None"
    /\ d_steps = <<>>

\* The files _sample_fragments samples (lines 407-409):
\* np.linspace(0, num_files - 1, num_samples).astype(int), counted from 1.
SampleIndex(num_files, num_samples, j) ==
    IF num_samples = 1 THEN 1
    ELSE (((j - 1) * (num_files - 1)) \div (num_samples - 1)) + 1

SampledFiles(num_files) ==
    {SampleIndex(num_files, NumSamples(num_files), j) :
        j \in 1 .. NumSamples(num_files)}

\* Mutant of PrefetchReads: the prefetch never notices a file of 0 bytes.
PrefetchReadsNever(num_prefetched, zero) == FALSE

\* The metadata provider read the footer of file `zero` when it returned an
\* entry for it: reading the footer of a file of 0 bytes raises
\* pa.ArrowInvalid("Parquet file size is 0 bytes") (lines 276-277).
PrefetchReads(num_prefetched, zero) == zero >= 1 /\ zero <= num_prefetched

\* __init__ (lines 269-300) for n fragments: prefetch_file_metadata returned
\* `sizes` (possibly nothing), the sampling tasks returned sample_infos;
\* file `zero` has 0 bytes on disk (0: no file has).
Construct(n, sizes, shuffle, sample_infos, decoding, target, zero) ==
    LET batch == estimate_default_read_batch_size_rows(sample_infos, target) IN
    /\ d_pc = "none"
    /\ zero_size_file' = zero
    /\ IF PrefetchReads(Len(sizes), zero)
         THEN \* lines 276-278: the prefetch raised, InvalidFile is raised
              /\ d_pc' = "failed"
              /\ d_error' = "InvalidFile"
              /\ d_steps' = <<"prefetch">>
              /\ UNCHANGED <<pq_fragments, pq_paths, metadata, prefetched,
                             shuffler, encoding_ratio,
                             default_read_batch_size_rows>>
         ELSE /\ pq_fragments' = Identity(n)
              /\ pq_paths' = Identity(n)
              /\ metadata' = sizes
              /\ prefetched' = Len(sizes)
              /\ shuffler' = shuffle
              /\ IF zero \in SampledFiles(n)
                   THEN \* line 298: the sampling task of the file raises
                        /\ d_pc' = "failed"
                        /\ d_error' = "ArrowInvalid"
                        /\ d_steps' = <<"prefetch", "sample">>
                        /\ encoding_ratio' = NoneRat
                        /\ default_read_batch_size_rows' = NoneRat
                   ELSE /\ d_steps' = <<"prefetch", "sample", "encoding_ratio",
                                        "batch_size">>
                        /\ encoding_ratio' =
                             estimate_files_encoding_ratio(sample_infos,
                                                           decoding)
                        /\ IF batch.kind = "value"
                             THEN /\ default_read_batch_size_rows' = batch.val
                                  /\ d_pc' = "ready"
                                  /\ d_error' = "None"
                             ELSE /\ default_read_batch_size_rows' = NoneRat
                                  /\ d_pc' = "failed"
                                  /\ d_error' = batch.kind
    /\ UNCHANGED <<tasks, last_parallelism, d_est>>
    /\ UNCHANGED not_ds

\* `pq_metadata += [None] * (...)` (lines 318-322): pq_metadata is
\* self._metadata itself, which the += extends in place.
PadMetadata(pq_metadata, n) ==
    IF Len(pq_metadata) < n
      THEN pq_metadata \o [k \in 1 .. (n - Len(pq_metadata)) |-> NoMetadata]
      ELSE pq_metadata

\* Mutant of ShufflePermutations: the files are shuffled for every datasource.
ShufflePermutationsAlways(shuffle, n) == Permutations(1 .. n)

\* The orders one call can split (lines 324-334): with a shuffler, whatever
\* permutation the unseeded generator returns for this call; without, the
\* stored order.
ShufflePermutations(shuffle, n) ==
    IF shuffle THEN Permutations(1 .. n) ELSE {Identity(n)}

\* [files_metadata[i] for i in permutation]
Permute(seq, perm) == [k \in DOMAIN perm |-> seq[perm[k]]]

\* Mutant of SectionSize: the remainder goes to the last section.
SectionSizeRemainderLast(n, sections, k) ==
    (n \div sections) + (IF k = sections THEN n % sections ELSE 0)

\* np.array_split: the first n % sections sections hold n // sections + 1
\* elements, the others n // sections.
SectionSize(n, sections, k) ==
    (n \div sections) + (IF k <= n % sections THEN 1 ELSE 0)

RECURSIVE SectionStart(_, _, _)
SectionStart(n, sections, k) ==
    IF k = 1 THEN 0
    ELSE SectionStart(n, sections, k - 1) + SectionSize(n, sections, k - 1)

ArraySplit(seq, sections) ==
    [k \in 1 .. sections |->
        SubSeq(seq,
               SectionStart(Len(seq), sections, k) + 1,
               SectionStart(Len(seq), sections, k)
                   + SectionSize(Len(seq), sections, k))]

\* The loop over the zipped sections (lines 336-390): one ReadTask per
\* section that holds a fragment.
RECURSIVE ReadTasks(_, _, _, _)
ReadTasks(frags, paths, metas, k) ==
    IF k > Len(frags) THEN <<>>
    ELSE (IF Len(frags[k]) <= 0 THEN <<>>
          ELSE <<[fragments |-> frags[k], paths |-> paths[k],
                  metadata |-> metas[k]]>>)
         \o ReadTasks(frags, paths, metas, k + 1)

\* get_read_tasks(parallelism) (lines 312-392); perm is the permutation
\* drawn for this call.
GetReadTasks(parallelism, perm) ==
    LET padded == PadMetadata(metadata, Len(pq_fragments)) IN
    /\ d_pc = "ready"
    /\ perm \in ShufflePermutations(shuffler, Len(pq_fragments))
    /\ metadata' = padded
    /\ tasks' = ReadTasks(ArraySplit(Permute(pq_fragments, perm), parallelism),
                          ArraySplit(Permute(pq_paths, perm), parallelism),
                          ArraySplit(Permute(padded, perm), parallelism),
                          1)
    /\ last_parallelism' = parallelism
    /\ UNCHANGED <<d_pc, pq_fragments, pq_paths, prefetched, shuffler,
                   encoding_ratio, default_read_batch_size_rows, d_est,
                   zero_size_file, d_error, d_steps>>
    /\ UNCHANGED not_ds

RECURSIVE TotalByteSize(_)
TotalByteSize(seq) ==
    IF seq = <<>> THEN 0 ELSE seq[1] + TotalByteSize(Tail(seq))

\* estimate_inmemory_data_size (lines 302-310): a None entry of
\* self._metadata has no total_byte_size.
EstimateInmemoryDataSize ==
    /\ d_pc = "ready"
    /\ d_est' =
         IF \E k \in DOMAIN metadata : metadata[k] = NoMetadata
           THEN Raised("AttributeError")
           ELSE Value(Rat(TotalByteSize(metadata) * encoding_ratio[1],
                          encoding_ratio[2]))
    /\ UNCHANGED <<d_pc, pq_fragments, pq_paths, metadata, prefetched, shuffler,
                   encoding_ratio, default_read_batch_size_rows, tasks,
                   last_parallelism, zero_size_file, d_error, d_steps>>
    /\ UNCHANGED not_ds

\* The datasource is dropped; another one can be constructed.
Discard ==
    /\ d_pc \in {"ready", "failed"}
    /\ d_pc' = "none"
    /\ pq_fragments' = <<>>
    /\ pq_paths' = <<>>
    /\ metadata' = <<>>
    /\ prefetched' = 0
    /\ shuffler' = FALSE
    /\ encoding_ratio' = NoneRat
    /\ default_read_batch_size_rows' = NoneRat
    /\ tasks' = <<>>
    /\ last_parallelism' = 0
    /\ d_est' = NoResult
    /\ zero_size_file' = 0
    /\ d_error' = "None"
    /\ d_steps' = <<>>
    /\ UNCHANGED not_ds

DsNext ==
    \/ /\ d_pc = "none"
       /\ \E n \in 1 .. MaxFragments, shuffle \in BOOLEAN,
             decoding \in BOOLEAN, target \in ConstructTargets :
             \E m \in 0 .. n, zero \in 0 .. n :
                \E sizes \in [1 .. m -> FileByteSizes],
                   sample_infos \in [1 .. NumSamples(n) -> ConstructSamples] :
                   /\ shuffle => n <= MaxShuffled
                   /\ Construct(n, sizes, shuffle, sample_infos, decoding,
                                target, zero)
    \/ /\ d_pc = "ready"
       /\ \E parallelism \in 1 .. MaxParallelism :
             \E perm \in ShufflePermutations(shuffler, Len(pq_fragments)) :
                GetReadTasks(parallelism, perm)
    \/ EstimateInmemoryDataSize
    \/ Discard

(***************************************************************************)
(* cleanrooms.read_sql_query and _delete_after_iterate                     *)
(***************************************************************************)
\* Argument values; "None" is Python's None and "" the empty string or dict.
SqlValues == {"None", "", "SELECT 1"}
ArnValues == {"None", "", "arn:aws:cleanrooms:template"}
ParamsValues == {"None", "", "{'p': 1}"}
ChunksizeValues == {"None", "False", "True", "2"}
CallArgs ==
    [sql : SqlValues, analysis_template_arn : ArnValues, params : ParamsValues,
     keep_files : BOOLEAN, chunksize : ChunksizeValues]
NoArgs ==
    [sql |-> "None", analysis_template_arn |-> "None", params |-> "None",
     keep_files |-> TRUE, chunksize |-> "None"]

\* Python's truth value of a str, dict or None argument.
Truthy(x) == x \notin {"None", ""}

\* `chunked = False if chunksize is None else chunksize`, `chunked is False`
ChunkedIsFalse(chunksize) == chunksize \in {"None", "False"}

\* The sqlParameters built by lines 111-120 ("None": the else branch raises).
SqlParameters(args) ==
    IF Truthy(args.sql)
      THEN [kind |-> "queryString", parameters |-> FALSE]
    ELSE IF Truthy(args.analysis_template_arn)
      THEN [kind |-> "analysisTemplateArn",
            parameters |-> Truthy(args.params)]
    ELSE [kind |-> "None", parameters |-> FALSE]

\* Mutant of DeletesObjects: the objects are deleted whatever keep_files is.
DeletesObjectsAlways(keep_files) == TRUE

\* `if keep_files is False:` (lines 25 and 159)
DeletesObjects(keep_files) == keep_files = FALSE

CrInit ==
    /\ c_pc = "idle"
    /\ c_args = NoArgs
    /\ c_sql_parameters = [kind |-> "None", parameters |-> FALSE]
    /\ c_chunks_left = 0
    /\ c_events = <<>>
    /\ c_error = "None"

\* read_sql_query up to start_protected_query (lines 109-135).
ReadSqlQuery(args) ==
    /\ c_pc = "idle"
    /\ c_args' = args
    /\ c_sql_parameters' = SqlParameters(args)
    /\ IF SqlParameters(args).kind = "None"
         THEN /\ c_pc' = "raised"
              /\ c_error' = "InvalidArgumentCombination"
              /\ c_events' = <<>>
         ELSE /\ c_pc' = "waiting"
              /\ c_error' = "None"
              /\ c_events' = <<"start_protected_query">>
    /\ c_chunks_left' = 0
    /\ UNCHANGED not_cr

\* wait_query returns the location of the output (lines 138-140).
WaitQueryReturns ==
    /\ c_pc = "waiting"
    /\ c_pc' = "reading"
    /\ c_events' = Append(c_events, "wait_query")
    /\ UNCHANGED <<c_args, c_sql_parameters, c_chunks_left, c_error>>
    /\ UNCHANGED not_cr

\* wait_query raises: the query failed, was cancelled or timed out.
WaitQueryRaises ==
    /\ c_pc = "waiting"
    /\ c_pc' = "raised"
    /\ c_error' = "QueryFailed"
    /\ c_events' = Append(c_events, "wait_query")
    /\ UNCHANGED <<c_args, c_sql_parameters, c_chunks_left>>
    /\ UNCHANGED not_cr

\* s3.read_parquet raises (lines 144-150).
ReadParquetRaises ==
    /\ c_pc = "reading"
    /\ c_pc' = "raised"
    /\ c_error' = "NoFilesFound"
    /\ c_events' = Append(c_events, "read_parquet")
    /\ UNCHANGED <<c_args, c_sql_parameters, c_chunks_left>>
    /\ UNCHANGED not_cr

\* s3.read_parquet returns, then lines 152-162: without chunks the objects
\* are deleted unless kept and the frame is returned; with chunks the
\* generator of _delete_after_iterate over `chunks` chunks is returned.
ReadParquetReturns(chunks) ==
    /\ c_pc = "reading"
    /\ IF ChunkedIsFalse(c_args.chunksize)
         THEN /\ chunks = 0
              /\ c_pc' = "returned"
              /\ c_chunks_left' = 0
              /\ c_events' =
                   IF DeletesObjects(c_args.keep_files)
                     THEN c_events \o <<"read_parquet", "delete_objects">>
                     ELSE Append(c_events, "read_parquet")
         ELSE /\ c_pc' = "iterating"
              /\ c_chunks_left' = chunks
              /\ c_events' = Append(c_events, "read_parquet")
    /\ UNCHANGED <<c_args, c_sql_parameters, c_error>>
    /\ UNCHANGED not_cr

\* The consumer asks the generator for the next frame and `yield from dfs`
\* yields one (line 24).
NextYields ==
    /\ c_pc = "iterating"
    /\ c_chunks_left > 0
    /\ c_chunks_left' = c_chunks_left - 1
    /\ c_events' = Append(c_events, "yield")
    /\ UNCHANGED <<c_pc, c_args, c_sql_parameters, c_error>>
    /\ UNCHANGED not_cr

\* The consumer asks for the next frame and dfs is exhausted: the generator
\* runs lines 25-26 and ends.
NextExhausted ==
    /\ c_pc = "iterating"
    /\ c_chunks_left = 0
    /\ c_pc' = "exhausted"
    /\ c_events' = IF DeletesObjects(c_args.keep_files)
                     THEN Append(c_events, "delete_objects") ELSE c_events
    /\ UNCHANGED <<c_args, c_sql_parameters, c_chunks_left, c_error>>
    /\ UNCHANGED not_cr

\* Reading the next chunk raises inside `yield from dfs`: the exception
\* leaves the generator before line 25.
NextRaises ==
    /\ c_pc = "iterating"
    /\ c_chunks_left > 0
    /\ c_pc' = "raised"
    /\ c_error' = "ReadError"
    /\ UNCHANGED <<c_args, c_sql_parameters, c_chunks_left, c_events>>
    /\ UNCHANGED not_cr

\* The consumer drops the generator without exhausting it: it is closed at
\* its yield (or before its first step) and lines 25-26 never run.
ConsumerAbandons ==
    /\ c_pc = "iterating"
    /\ c_pc' = "abandoned"
    /\ UNCHANGED <<c_args, c_sql_parameters, c_chunks_left, c_events, c_error>>
    /\ UNCHANGED not_cr

\* The call is over; the next one starts afresh.
CrReset ==
    /\ c_pc \in {"returned", "exhausted", "abandoned", "raised"}
    /\ c_pc' = "idle"
    /\ c_args' = NoArgs
    /\ c_sql_parameters' = [kind |-> "None", parameters |-> FALSE]
    /\ c_chunks_left' = 0
    /\ c_events' = <<>>
    /\ c_error' = "None"
    /\ UNCHANGED not_cr

CrNext ==
    \/ /\ c_pc = "idle"
       /\ \E args \in CallArgs : ReadSqlQuery(args)
    \/ WaitQueryReturns
    \/ WaitQueryRaises
    \/ ReadParquetRaises
    \/ /\ c_pc = "reading"
       /\ \E chunks \in 0 .. MaxChunks : ReadParquetReturns(chunks)
    \/ NextYields
    \/ NextExhausted
    \/ NextRaises
    \/ ConsumerAbandons
    \/ CrReset

(***************************************************************************)
(* _read_fragments (lines 445-504), run by the ReadTasks of one datasource *)
(* one after another in one process: every ReadTask's lambda holds the     *)
(* same dict, self._arrow_parquet_args (lines 361 and 369, line 380).      *)
(***************************************************************************)
\* The dict holds a batch_size (NoneRat: no such key) and a use_threads
\* ("absent": no such key); its other keys are passed on as they are.
NoArgsDict == [batch_size |-> NoneRat, use_threads |-> "absent"]
ArrowParquetArgs ==
    {NoArgsDict, [batch_size |-> RatInt(7), use_threads |-> "True"]}
\* Values of self._default_read_batch_size_rows: a mean of batch sizes.
DefaultBatchSizes == {Rat(PARQUET_READER_ROW_BATCH_SIZE + 1, 2)}
\* The batches to_batches returns for one fragment, by their num_rows.
BatchLists == UNION {[1 .. k -> BatchNumRows] : k \in 0 .. MaxBatches}

NoCall == [fragment |-> 0, use_threads |-> "absent", batch_size |-> NoneRat,
           num_batches |-> 0]

RfInit ==
    /\ rf_pc = "none"
    /\ supplied_args = NoArgsDict
    /\ arrow_parquet_args = NoArgsDict
    /\ rf_default = NoneRat
    /\ block_udf = FALSE
    /\ serialized_fragments = <<>>
    /\ use_threads = "absent"
    /\ batch_size = NoneRat
    /\ fragment = 0
    /\ batches = <<>>
    /\ to_batches_calls = <<>>
    /\ yielded = <<>>
    /\ udf_calls = <<>>
    /\ rerun = FALSE

\* __init__ keeps the caller's dict (line 291), the transform (line 288)
\* and the derived default batch size (line 300).
ReadSetup(args, default, udf) ==
    /\ rf_pc = "none"
    /\ rf_pc' = "idle"
    /\ supplied_args' = args
    /\ arrow_parquet_args' = args
    /\ rf_default' = default
    /\ block_udf' = udf
    /\ UNCHANGED <<serialized_fragments, use_threads, batch_size, fragment,
                   batches, to_batches_calls, yielded, udf_calls, rerun>>
    /\ UNCHANGED retry_vars
    /\ UNCHANGED not_rf

\* The read function of a ReadTask of n fragments is called and its
\* generator started: line 459 enters _deserialize_fragments_with_retry.
ReadFragments(n) ==
    /\ rf_pc \in {"idle", "done", "raised"}
    /\ rf_pc' = "resolving"
    /\ rerun' = (rf_pc # "idle")
    /\ serialized_fragments' = Identity(n)
    /\ use_threads' = "absent"
    /\ batch_size' = NoneRat
    /\ fragment' = 0
    /\ batches' = <<>>
    /\ to_batches_calls' = <<>>
    /\ yielded' = <<>>
    /\ udf_calls' = <<>>
    /\ RetryEnter
    /\ UNCHANGED <<supplied_args, arrow_parquet_args, rf_default, block_udf>>
    /\ UNCHANGED not_rf

\* `arrow_parquet_args.pop("use_threads", False)` (line 468): the value
\* returned.
PopUseThreads(args) ==
    IF args.use_threads = "absent" THEN "False" ELSE args.use_threads

\* `arrow_parquet_args.pop("batch_size", default_read_batch_size_rows)`
\* (line 469): the value returned.
PopBatchSize(args, default) ==
    IF args.batch_size = NoneRat THEN default ELSE args.batch_size

\* The dict after the two pops: dict.pop removes the key from the dict.
AfterPops(args) == [batch_size |-> NoneRat, use_threads |-> "absent"]

\* The fragments are resolved (line 459); the assert holds for the groups
\* of get_read_tasks, which are not empty; then lines 468-469.
Resolved ==
    /\ rf_pc = "resolving"
    /\ r_pc = "returned"
    /\ Len(serialized_fragments) > 0
    /\ rf_pc' = "fragments"
    /\ use_threads' = PopUseThreads(arrow_parquet_args)
    /\ batch_size' = PopBatchSize(arrow_parquet_args, rf_default)
    /\ arrow_parquet_args' = AfterPops(arrow_parquet_args)
    /\ fragment' = 1
    /\ UNCHANGED <<supplied_args, rf_default, block_udf, serialized_fragments,
                   batches, to_batches_calls, yielded, udf_calls, rerun>>
    /\ UNCHANGED retry_vars
    /\ UNCHANGED not_rf

\* _deserialize_fragments_with_retry raised: the exception leaves the
\* generator at line 459.
ResolveFails ==
    /\ rf_pc = "resolving"
    /\ r_pc = "raised"
    /\ rf_pc' = "raised"
    /\ UNCHANGED <<supplied_args, arrow_parquet_args, rf_default, block_udf,
                   serialized_fragments, use_threads, batch_size, fragment,
                   batches, to_batches_calls, yielded, udf_calls, rerun>>
    /\ UNCHANGED retry_vars
    /\ UNCHANGED not_rf

\* The next fragment of the loop (lines 470-478): to_batches is called with
\* the two locals and returns the batches bs.
ToBatches(bs) ==
    /\ rf_pc = "fragments"
    /\ fragment <= Len(serialized_fragments)
    /\ rf_pc' = "batches"
    /\ batches' = bs
    /\ to_batches_calls' =
         Append(to_batches_calls,
                [fragment |-> serialized_fragments[fragment],
                 use_threads |-> use_threads,
                 batch_size |-> batch_size,
                 num_batches |-> Len(bs)])
    /\ UNCHANGED <<supplied_args, arrow_parquet_args, rf_default, block_udf,
                   serialized_fragments, use_threads, batch_size, fragment,
                   yielded, udf_calls, rerun>>
    /\ UNCHANGED retry_vars
    /\ UNCHANGED not_rf

\* The loop over the fragments is over: the generator ends.
LoopEnds ==
    /\ rf_pc = "fragments"
    /\ fragment > Len(serialized_fragments)
    /\ rf_pc' = "done"
    /\ UNCHANGED <<supplied_args, arrow_parquet_args, rf_default, block_udf,
                   serialized_fragments, use_threads, batch_size, fragment,
                   batches, to_batches_calls, yielded, udf_calls, rerun>>
    /\ UNCHANGED retry_vars
    /\ UNCHANGED not_rf

\* Mutant of KeepsTable: empty tables are yielded like the others.
KeepsTableAlways(num_rows) == TRUE

\* `if table.num_rows > 0:` (line 500)
KeepsTable(num_rows) == num_rows > 0

\* The next batch of the fragment (lines 479-504): the table built from
\* it has the rows of the batch (the partition and path columns add none);
\* it is yielded, through block_udf when there is one, unless it is empty.
NextBatch ==
    LET num_rows == Head(batches)
        call == to_batches_calls[Len(to_batches_calls)]
        table == [fragment |-> serialized_fragments[fragment],
                  batch |-> call.num_batches - Len(batches) + 1,
                  num_rows |-> num_rows,
                  transformed |-> block_udf]
    IN  /\ rf_pc = "batches"
        /\ batches # <<>>
        /\ batches' = Tail(batches)
        /\ IF KeepsTable(num_rows)
             THEN /\ yielded' = Append(yielded, table)
                  /\ udf_calls' = IF block_udf THEN Append(udf_calls, num_rows)
                                   ELSE udf_calls
             ELSE UNCHANGED <<yielded, udf_calls>>
        /\ UNCHANGED <<rf_pc, supplied_args, arrow_parquet_args, rf_default,
                       block_udf, serialized_fragments, use_threads,
                       batch_size, fragment, to_batches_calls, rerun>>
        /\ UNCHANGED retry_vars
        /\ UNCHANGED not_rf

\* The batches of the fragment are exhausted: the next fragment.
BatchesEnd ==
    /\ rf_pc = "batches"
    /\ batches = <<>>
    /\ rf_pc' = "fragments"
    /\ fragment' = fragment + 1
    /\ UNCHANGED <<supplied_args, arrow_parquet_args, rf_default, block_udf,
                   serialized_fragments, use_threads, batch_size, batches,
                   to_batches_calls, yielded, udf_calls, rerun>>
    /\ UNCHANGED retry_vars
    /\ UNCHANGED not_rf

\* Reading a batch, building its table or block_udf raises: nothing in
\* the loop catches it and the exception leaves the generator.
ReadRaises ==
    /\ rf_pc = "batches"
    /\ batches # <<>>
    /\ rf_pc' = "raised"
    /\ UNCHANGED <<supplied_args, arrow_parquet_args, rf_default, block_udf,
                   serialized_fragments, use_threads, batch_size, fragment,
                   batches, to_batches_calls, yielded, udf_calls, rerun>>
    /\ UNCHANGED retry_vars
    /\ UNCHANGED not_rf

\* The exception every failed attempt of a resolution raises here.
ReadExcKinds == {"OSError"}

ReadNext ==
    \/ /\ rf_pc = "none"
       /\ \E args \in ArrowParquetArgs, default \in DefaultBatchSizes,
             udf \in BOOLEAN : ReadSetup(args, default, udf)
    \/ /\ rf_pc \in {"idle", "done", "raised"}
       /\ \E n \in 1 .. MaxGroup : ReadFragments(n)
    \/ /\ rf_pc = "resolving"
       /\ AttemptSucceeds
    \/ /\ rf_pc = "resolving"
       /\ \E e \in ReadExcKinds : AttemptFails(e, 0)
    \/ Resolved
    \/ ResolveFails
    \/ /\ rf_pc = "fragments"
       /\ \E bs \in BatchLists : ToBatches(bs)
    \/ LoopEnds
    \/ NextBatch
    \/ BatchesEnd
    \/ ReadRaises

(***************************************************************************)
(* Claims about cleanrooms.read_sql_query (under SpecCleanrooms).          *)
(***************************************************************************)
\* How often `what` was called, or a chunk yielded, so far.
Count(what) == Cardinality({k \in DOMAIN c_events : c_events[k] = what})

\* An argument is supplied when it is a non-empty value.
Supplied(x) == Truthy(x)

ExactlyOneSupplied ==
    Supplied(c_args.sql) # Supplied(c_args.analysis_template_arn)

\* C10 as stated: read_sql_query accepts exactly one of sql and
\* analysis_template_arn; a call with both, or with neither, is rejected
\* with an error and starts no protected query; only a call with exactly one
\* of them starts a query.
C10_Original ==
    c_pc # "idle" =>
        /\ (Count("start_protected_query") = 1) <=> ExactlyOneSupplied
        /\ ~ExactlyOneSupplied =>
              /\ c_pc = "raised"
              /\ c_error = "InvalidArgumentCombination"
              /\ Count("start_protected_query") = 0

\* C10 away from the failing input: the same statement for calls that do
\* not supply both arguments.
C10_HoldsUnlessBoth ==
    ~(Supplied(c_args.sql) /\ Supplied(c_args.analysis_template_arn))
        => C10_Original

\* The position of the first `what` in the events (0: none).
First(what) ==
    IF Count(what) = 0 THEN 0
    ELSE CHOOSE k \in DOMAIN c_events :
            /\ c_events[k] = what
            /\ \A m \in 1 .. (k - 1) : c_events[m] # what

\* C11: with keep_files=True delete_objects is never called on any path;
\* with keep_files=False it is called at most once, never before the query
\* has completed and the results have been read, and in chunked mode never
\* before the last chunk has been yielded to the consumer.
C11_DeleteOnlyAfterConsumption ==
    /\ c_args.keep_files = TRUE => Count("delete_objects") = 0
    /\ Count("delete_objects") <= 1
    /\ Count("delete_objects") = 1 =>
          /\ c_args.keep_files = FALSE
          /\ First("wait_query") > 0
          /\ First("wait_query") < First("read_parquet")
          /\ First("read_parquet") < First("delete_objects")
          /\ First("delete_objects") = Len(c_events)
          /\ c_error = "None"
          /\ IF ChunkedIsFalse(c_args.chunksize)
               THEN c_pc = "returned" /\ Count("yield") = 0
               ELSE c_pc = "exhausted" /\ c_chunks_left = 0
    /\ (c_pc = "iterating" /\ c_chunks_left > 0) => Count("delete_objects") = 0

\* Witness of C11: a chunked read with keep_files=False whose two chunks
\* were yielded before the objects were deleted.
C11_Witness ==
    /\ c_pc = "exhausted"
    /\ c_args.keep_files = FALSE
    /\ Count("yield") = 2
    /\ c_events[Len(c_events)] = "delete_objects"

(***************************************************************************)
(* Claims about ArrowParquetDatasource (under SpecDatasource).             *)
(***************************************************************************)
\* The fragments of the tasks, task after task.
RECURSIVE TaskFragments(_)
TaskFragments(ts) ==
    IF ts = <<>> THEN <<>> ELSE ts[1].fragments \o TaskFragments(Tail(ts))

TasksReturned == d_pc = "ready" /\ last_parallelism > 0

\* C4: for n >= 1 fragments and parallelism p >= 1 the fragment groups of
\* the tasks get_read_tasks(p) returns partition the fragment list: every
\* fragment is in exactly one task, there are min(p, n) tasks, none is empty
\* and the group sizes differ by at most 1 (n = 7, p = 3: sizes 3, 2, 2).
C4_TasksPartitionFragments ==
    TasksReturned =>
        LET n == Len(pq_fragments)
            flat == TaskFragments(tasks)
        IN  /\ Len(flat) = n
            /\ \A f \in DOMAIN pq_fragments :
                  Cardinality({k \in DOMAIN flat : flat[k] = pq_fragments[f]}) = 1
            /\ Len(tasks) = Min(last_parallelism, n)
            /\ \A t \in DOMAIN tasks : Len(tasks[t].fragments) >= 1
            /\ \A t, u \in DOMAIN tasks :
                  Len(tasks[t].fragments) - Len(tasks[u].fragments) <= 1
            /\ (n = 7 /\ last_parallelism = 3) =>
                  [t \in DOMAIN tasks |-> Len(tasks[t].fragments)] = <<3, 2, 2>>

\* Witness of C4: 7 fragments split for parallelism 3.
C4_Witness ==
    /\ TasksReturned
    /\ Len(pq_fragments) = 7
    /\ last_parallelism = 3
    /\ Len(tasks) = 3

\* A step of get_read_tasks.
IsGetReadTasks ==
    \E parallelism \in 1 .. MaxParallelism :
       \E perm \in ShufflePermutations(shuffler, Len(pq_fragments)) :
          GetReadTasks(parallelism, perm)

\* C5 as stated: any two calls of get_read_tasks with the same parallelism on
\* the same datasource return identical fragment-to-group assignments (the
\* permutation is computed once and kept), and without shuffling the groups
\* are contiguous slices of the fragment list in its original order.
C5_Original ==
    [][IsGetReadTasks =>
          /\ (last_parallelism' = last_parallelism => tasks' = tasks)
          /\ (~shuffler => TaskFragments(tasks') = pq_fragments)]_vars

\* C5 (amended): with shuffle="files" only the random generator is created
\* once; each get_read_tasks call draws its own permutation, so the groups
\* of a call are the contiguous chunks of some permutation of the
\* (fragment, path, metadata) triples, each triple kept together; without
\* shuffling the groups are contiguous slices of the fragment list in its
\* original order.
C5_GroupsFollowShuffle ==
    TasksReturned =>
        LET flat == TaskFragments(tasks) IN
        /\ \A t \in DOMAIN tasks :
              /\ Len(tasks[t].paths) = Len(tasks[t].fragments)
              /\ Len(tasks[t].metadata) = Len(tasks[t].fragments)
              /\ \A k \in DOMAIN tasks[t].fragments :
                    /\ tasks[t].paths[k] = pq_paths[tasks[t].fragments[k]]
                    /\ tasks[t].metadata[k] = metadata[tasks[t].fragments[k]]
        /\ Len(flat) = Len(pq_fragments)
        /\ {flat[k] : k \in DOMAIN flat}
              = {pq_fragments[k] : k \in DOMAIN pq_fragments}
        /\ ~shuffler => flat = pq_fragments

\* Witness of C5: a shuffled datasource with prefetched metadata whose
\* tasks are not in the stored order.
C5_Witness ==
    /\ TasksReturned
    /\ shuffler
    /\ prefetched = Len(pq_fragments)
    /\ Len(tasks) >= 2
    /\ TaskFragments(tasks) # pq_fragments

\* estimate_inmemory_data_size returned None.
ReturnedNone == [kind |-> "returned None", val |-> NoneRat]

\* C9 as stated: estimate_inmemory_data_size returns the sum of the
\* prefetched per-file byte sizes times the encoding ratio when metadata was
\* prefetched, and None (not 0) when no metadata was prefetched.
C9_Original ==
    (d_pc = "ready" /\ d_est.kind \in {"value", "returned None"}) =>
        IF prefetched = 0
          THEN d_est = ReturnedNone
          ELSE d_est = Value(Rat(TotalByteSize(SubSeq(metadata, 1, prefetched))
                                     * encoding_ratio[1],
                                 encoding_ratio[2]))

\* C9 for datasources with prefetched metadata: the returned value is the
\* sum of the prefetched byte sizes times the encoding ratio.
C9_HoldsWithMetadata ==
    (d_pc = "ready" /\ prefetched > 0) => C9_Original

\* C15 as stated: get_read_tasks leaves the stored state unchanged: after
\* any sequence of get_read_tasks calls, also when fewer metadata entries
\* were prefetched than there are fragments, the stored metadata list has
\* the length and the entries it had after construction, and
\* estimate_inmemory_data_size returns its value without raising.
C15_Original ==
    d_pc = "ready" =>
        /\ Len(metadata) = prefetched
        /\ \A k \in DOMAIN metadata : metadata[k] # NoMetadata
        /\ d_est.kind # "AttributeError"

\* C15 for datasources whose metadata was prefetched for every fragment:
\* nothing is padded and the stored list stays as it was.
C15_HoldsWhenAllPrefetched ==
    (d_pc = "ready" /\ prefetched = Len(pq_fragments)) => C15_Original

\* __init__ ran with a file of 0 bytes among its inputs.
ConstructedWithZeroSizeFile == d_pc # "none" /\ zero_size_file > 0

\* C13 as stated: when one of the input files has zero on-disk size,
\* constructing the datasource fails with InvalidFile raised from the
\* metadata prefetch step, before any sampling task is launched and before
\* any encoding-ratio or batch-size computation runs; a zero-size file
\* never reaches the estimator as a division by zero.
C13_Original ==
    ConstructedWithZeroSizeFile =>
        /\ d_pc = "failed"
        /\ d_error = "InvalidFile"
        /\ d_steps = <<"prefetch">>

\* C13 (amended): InvalidFile is raised only from the prefetch step, for a
\* zero-size file, before any sampling and any estimate; it is raised
\* whenever the prefetch reads the zero-size file, so a construction that
\* went past the prefetch with such a file had no metadata prefetched for
\* it; and a division by zero in the estimator never comes from the sample
\* of the zero-size file.
C13_InvalidFileFromPrefetch ==
    /\ d_error = "InvalidFile" =>
          /\ zero_size_file > 0
          /\ d_pc = "failed"
          /\ d_steps = <<"prefetch">>
          /\ encoding_ratio = NoneRat
          /\ default_read_batch_size_rows = NoneRat
    /\ (ConstructedWithZeroSizeFile /\ d_error # "InvalidFile") =>
          /\ zero_size_file > prefetched
          /\ Len(d_steps) >= 2
          /\ (d_error = "ZeroDivisionError" =>
                zero_size_file \notin SampledFiles(Len(pq_fragments)))

\* Witness of C13: the second file has 0 bytes and the construction
\* failed with InvalidFile.
C13_Witness ==
    /\ d_pc = "failed"
    /\ d_error = "InvalidFile"
    /\ zero_size_file = 2

(***************************************************************************)
(* Claims about the sampling estimators (under SpecEstimate).              *)
(***************************************************************************)
RatEncodingDefault == RatInt(PARQUET_ENCODING_RATIO_ESTIMATE_DEFAULT)
RatLowerBound == RatInt(PARQUET_ENCODING_RATIO_ESTIMATE_LOWER_BOUND)

Clamp(x, lo, hi) == Max(Min(x, hi), lo)

\* C7 as stated: the number of sampled fragments is
\* clamp(round(n * 0.01), min(2, n), min(10, n)).
C7_Original ==
    e_op = "sample_count" =>
        e_result = Value(RatInt(Clamp(RoundHalfEven(e_num_files),
                                      Min(2, e_num_files),
                                      Min(10, e_num_files))))

\* C7 (amended): the number of sampled fragments is
\* clamp(floor(n * 0.01), min(2, n), min(10, n)): 1 for n = 1, 2 for
\* 2 <= n < 300, floor(n / 100) for 300 <= n < 1000 and 10 from n = 1000 on.
C7_SampleCountTruncates ==
    e_op = "sample_count" =>
        /\ e_result.kind = "value"
        /\ e_result.val[2] = 1
        /\ LET n == e_num_files
               k == e_result.val[1]
           IN  /\ n = 1 => k = 1
               /\ (2 <= n /\ n < 300) => k = 2
               /\ (300 <= n /\ n < 1000) => (100 * k <= n /\ n < 100 * (k + 1))
               /\ n >= 1000 => k = 10

\* Witness of C7: a corpus of 1000 files, 10 samples.
C7_Witness ==
    /\ e_op = "sample_count"
    /\ e_num_files = 1000
    /\ e_result = Value(RatInt(10))

\* C8 as stated: every sample gets a per-sample batch size that is an
\* integer in [1, 10000], so the mean returned for a nonempty sample list is
\* in [1, 10000]; it is exactly 10000 when every sample's
\* actual_bytes_per_row is absent.
C8_Original ==
    e_op = "batch" =>
        /\ Len(e_per_sample) = Len(e_samples)
        /\ \A n \in DOMAIN e_per_sample :
              /\ e_per_sample[n][2] = 1
              /\ 1 <= e_per_sample[n][1]
              /\ e_per_sample[n][1] <= PARQUET_READER_ROW_BATCH_SIZE
        /\ e_result.kind = "value"
        /\ ~RatLess(e_result.val, RatInt(1))
        /\ ~RatLess(RatInt(PARQUET_READER_ROW_BATCH_SIZE), e_result.val)
        /\ ((\A n \in DOMAIN e_samples :
                e_samples[n].actual_bytes_per_row = NoneRat)
            => e_result = Value(RatInt(PARQUET_READER_ROW_BATCH_SIZE)))

\* C8 away from the failing input: the same statement for sample lists in
\* which no present actual_bytes_per_row is 0.
C8_HoldsWithoutZero ==
    (e_op = "batch" /\ \A n \in DOMAIN e_samples : ~DividesByZero(e_samples[n]))
        => C8_Original

Init ==
    /\ RetryInit
    /\ EstInit
    /\ DsInit
    /\ CrInit
    /\ RfInit

SpecRetry == Init /\ [][RetryNext]_vars

SpecEstimate == Init /\ [][EstNext]_vars

SpecDatasource == Init /\ [][DsNext]_vars

SpecCleanrooms == Init /\ [][CrNext]_vars

SpecRead == Init /\ [][ReadNext]_vars

\* read_sql_query runs to its return once called (wait_query polls until
\* the query ends, read_parquet returns or raises), and the consumer of a
\* returned iterator sooner or later either asks for the next frame or
\* drops the iterator. Nothing makes the caller call again.
CrFairness ==
    /\ WF_vars(WaitQueryReturns \/ WaitQueryRaises)
    /\ WF_vars(ReadParquetRaises
               \/ \E chunks \in 0 .. MaxChunks : ReadParquetReturns(chunks))
    /\ WF_vars(NextYields \/ NextExhausted \/ NextRaises \/ ConsumerAbandons)

SpecCleanroomsFair == Init /\ [][CrNext]_vars /\ CrFairness

\* read_sql_query returned an iterator for a call with keep_files=False.
IteratorReturnedWithoutKeep ==
    /\ c_pc = "iterating"
    /\ c_args.keep_files = FALSE

\* C17 as stated: when read_sql_query is called with a chunksize and
\* keep_files=False and returns an iterator, the output objects are
\* eventually deleted (delete_objects is called exactly once), whatever the
\* consumer does, also when it stops iterating before the iterator is
\* exhausted. (A read that raises while iterating is left aside.)
C17_Original ==
    IteratorReturnedWithoutKeep
        ~> (Count("delete_objects") = 1 \/ c_pc = "raised")

\* C17 for a consumer that exhausts the iterator: once it is exhausted the
\* objects were deleted exactly once.
C17_HoldsWhenExhausted ==
    (c_pc = "exhausted" /\ c_args.keep_files = FALSE)
        => Count("delete_objects") = 1

(***************************************************************************)
(* Claims about _read_fragments (under SpecRead).                          *)
(***************************************************************************)
\* What the caller's arguments ask to_batches to be called with.
ExpectedBatchSize ==
    IF supplied_args.batch_size # NoneRat
      THEN supplied_args.batch_size ELSE rf_default
ExpectedUseThreads ==
    IF supplied_args.use_threads # "absent"
      THEN supplied_args.use_threads ELSE "False"

\* C12 as stated: in every invocation of _read_fragments made through the
\* ReadTasks of one datasource, also when several run one after another on
\* the shared arrow_parquet_args, every to_batches call gets the caller's
\* batch_size, the derived default only when the caller supplied none, and
\* the caller's use_threads, or disabled when none was supplied.
C12_Original ==
    \A k \in DOMAIN to_batches_calls :
       /\ to_batches_calls[k].batch_size = ExpectedBatchSize
       /\ to_batches_calls[k].use_threads = ExpectedUseThreads

\* C12 for the first invocation on a datasource: its to_batches calls get
\* the caller's values.
C12_HoldsInFirstRun ==
    ~rerun => C12_Original

\* The invocation is past line 459.
PastResolution ==
    \/ rf_pc \in {"fragments", "batches", "done"}
    \/ rf_pc = "raised" /\ r_pc = "returned"

\* C14: _read_fragments resolves the whole group in one retried call
\* before yielding anything, then processes the fragments strictly in input
\* order (every table of fragment i before any table of fragment i+1, the
\* batches of one fragment in decode order), drops every table with zero
\* rows, so that the transform is applied only to non-empty tables and,
\* without a transform, every yielded table has at least one row; if the
\* resolution fails after the retries no table is yielded.
C14_SequentialNonEmptyTables ==
    /\ rf_pc = "resolving" => (yielded = <<>> /\ to_batches_calls = <<>>)
    /\ (rf_pc = "raised" /\ r_pc = "raised") =>
          /\ Len(outcomes) = FILE_READING_RETRY
          /\ yielded = <<>>
          /\ to_batches_calls = <<>>
          /\ udf_calls = <<>>
    /\ PastResolution =>
          /\ r_pc = "returned"
          /\ Len(outcomes) <= FILE_READING_RETRY
    /\ \A k \in DOMAIN to_batches_calls :
          to_batches_calls[k].fragment = serialized_fragments[k]
    /\ \A k \in DOMAIN yielded :
          /\ yielded[k].fragment \in DOMAIN to_batches_calls
          /\ yielded[k].batch \in
                1 .. to_batches_calls[yielded[k].fragment].num_batches
          /\ yielded[k].num_rows > 0
          /\ yielded[k].transformed = block_udf
    /\ \A k \in 1 .. (Len(yielded) - 1) :
          \/ yielded[k].fragment < yielded[k + 1].fragment
          \/ /\ yielded[k].fragment = yielded[k + 1].fragment
             /\ yielded[k].batch < yielded[k + 1].batch
    /\ IF block_udf
         THEN udf_calls = [k \in DOMAIN yielded |-> yielded[k].num_rows]
         ELSE udf_calls = <<>>

\* Witness of C14: a group of two fragments resolved after a failed
\* attempt; tables of both were given to the transform and yielded, and an
\* empty table of the first fragment was dropped.
C14_Witness ==
    /\ rf_pc = "done"
    /\ block_udf
    /\ Len(r_log) >= 1
    /\ Len(serialized_fragments) = 2
    /\ to_batches_calls[1].num_batches = 2
    /\ Len(yielded) = 2
    /\ yielded[1].fragment = 1
    /\ yielded[2].fragment = 2
    /\ Len(udf_calls) = 2

(***************************************************************************)
(* Claims about _deserialize_fragments_with_retry (under SpecRetry).       *)
(***************************************************************************)
AllFailed == \A n \in DOMAIN outcomes : outcomes[n] # "ok"

\* C1: when the underlying deserialization fails on every attempt, exactly
\* FILE_READING_RETRY (8) attempts are made, no more and no fewer, then the
\* exception of the last (8th) attempt is raised unchanged; no value is
\* returned in that case.
C1_AllFailuresRaiseLast ==
    /\ r_pc = "raised" =>
          /\ AllFailed
          /\ Len(outcomes) = FILE_READING_RETRY
          /\ r_result = [kind |-> outcomes[FILE_READING_RETRY],
                         attempt |-> FILE_READING_RETRY]
    /\ AllFailed =>
          /\ Len(outcomes) <= FILE_READING_RETRY
          /\ r_pc # "returned"
          /\ (Len(outcomes) = FILE_READING_RETRY <=> r_pc = "raised")
          /\ (r_pc # "raised" => r_result = NoValue)

\* Witness of C1: eight failed attempts whose kinds differ, then the raise.
C1_Witness ==
    /\ r_pc = "raised"
    /\ outcomes[1] # outcomes[FILE_READING_RETRY]

\* C2: for every k in 0..7, when the first k attempts fail and attempt k+1
\* succeeds, the call returns that attempt's result, has logged exactly k
\* failures numbered 1..k with the diagnostic dump only in the first, and
\* makes no attempt after the successful one.
C2_SuccessAfterFailures ==
    /\ \A n \in 1 .. (Len(outcomes) - 1) : outcomes[n] # "ok"
    /\ r_pc = "returned" =>
          LET k == Len(outcomes) - 1 IN
          /\ k \in 0 .. (FILE_READING_RETRY - 1)
          /\ outcomes[k + 1] = "ok"
          /\ r_result = [kind |-> "value", attempt |-> k + 1]
          /\ Len(r_log) = k
          /\ \A n \in 1 .. k :
                /\ r_log[n].attempt = n
                /\ r_log[n].dump = (n = 1)

\* Witness of C2: seven failures, then the eighth attempt succeeds.
C2_Witness ==
    /\ r_pc = "returned"
    /\ Len(outcomes) = FILE_READING_RETRY
    /\ Len(r_log) = FILE_READING_RETRY - 1

\* C3: within one call the wait after the first failure is 1 + j with the
\* jitter j in [0,1) drawn once (JitterSteps + j in model units), and the
\* wait after the n-th failure is 2^(n-1) times the first wait.
C3_FixedJitterDoubling ==
    /\ Len(draws) <= 1
    /\ sleeps # <<>> =>
          /\ Len(draws) = 1
          /\ draws[1] \in 0 .. (JitterSteps - 1)
          /\ sleeps[1] = JitterSteps + draws[1]
          /\ \A n \in 1 .. Len(sleeps) : sleeps[n] = Pow2(n - 1) * sleeps[1]

\* Witness of C3: three waits after a non-zero jitter.
C3_Witness ==
    /\ Len(sleeps) >= 3
    /\ draws[1] > 0

\* C16 as stated: a backoff sleep happens only between two consecutive
\* attempts: when all 8 attempts fail there are exactly 7 sleeps, of 1, 2,
\* 4, 8, 16, 32 and 64 times the base interval, and the error is raised
\* directly after the 8th failure with no further sleep (the log message of
\* the 8th failure announces no retry).
C16_Original ==
    /\ Len(sleeps) <= FILE_READING_RETRY - 1
    /\ r_pc = "raised" =>
          /\ Len(sleeps) = FILE_READING_RETRY - 1
          /\ \A n \in DOMAIN sleeps : sleeps[n] = Pow2(n - 1) * sleeps[1]
          /\ r_log[FILE_READING_RETRY].retry_after = NoRetry

\* C16 for calls that succeed: every sleep was followed by another
\* attempt.
C16_HoldsWhenReturned ==
    r_pc = "returned" =>
        /\ Len(sleeps) = Len(outcomes) - 1
        /\ Len(sleeps) <= FILE_READING_RETRY - 1

====
